---- MODULE Spec2Model ----
(***************************************************************************)
(* Vector<T> of src/VVector.h: a contiguous block of capacity_ slots owned *)
(* through vector_, of which the prefix [0, size_) holds constructed       *)
(* elements.  The heap is modelled slot by slot, so that construction and  *)
(* destruction of elements, allocation and deallocation of blocks and the  *)
(* exceptions thrown in between are all visible.                           *)
(*                                                                         *)
(* Slot i of the source (0-based) is slot i + 1 of a block here.           *)
(***************************************************************************)
EXTENDS Integers, Sequences, FiniteSets, TLC

\* ------------------------------------------------------------------ bounds
\* Largest capacity any operation may request in a program with one vector.
MaxCap == 4
\* Largest capacity any operation may request in a program with two vectors.
MaxCapPair == 2
\* Largest capacity reached in the program that only counts PushBack's work.
MaxCount == 8

\* ------------------------------------------------------------ element type
\* "d" is the value T() yields.
Dflt == "d"
\* A slot of raw storage holding no object.
Raw == "raw"
\* The valid but unspecified state a T is left in by T(T&&).
Moved == "moved"

NULL == 0

VARIABLES
  objs,         \* the vector objects the program declares
  exists,       \* exists[t]: the lifetime of vector t has begun and not ended
  vector_,      \* vector_[t]: T* vector_  (NULL or an address)
  size_,        \* size_[t]
  capacity_,    \* capacity_[t]
  heap,         \* heap[p]: the block at address p
  last,         \* what the most recent operation did
  destroyedRaw, \* destructor runs so far on slots holding no object
  lostElems,    \* objects so far whose storage was released while they lived
  crashed,      \* the process was aborted by undefined behaviour
  work          \* what the PushBacks of the counting program did so far

vars == <<objs, exists, vector_, size_, capacity_, heap, last, destroyedRaw, lostElems,
          crashed, work>>

\* The values of T the program uses: two distinguishable ones, one in the
\* program of two vectors that runs every operation.
Values == IF objs = {"a", "b"} THEN {"d"} ELSE {"d", "x"}

\* The addresses the allocator hands out: at most one block per vector and
\* one scratch block or temporary are allocated at any time.
Addrs == 1..(Cardinality(objs) + 1)

\* The largest capacity explored.
CapBound ==
  IF objs = {"v"} THEN MaxCount
  ELSE IF Cardinality(objs) = 1 THEN MaxCap ELSE MaxCapPair

\* ------------------------------------------------------------ the allocator
FreeBlock == [live |-> FALSE, cap |-> 0, slots |-> <<>>]

FreeAddrs(h) == {p \in Addrs : ~h[p].live}

\* allocate throws std::bad_alloc when the store is exhausted.
CanAllocate(h) == FreeAddrs(h) # {}

\* The address the next successful allocate returns.
NewAddr(h) == CHOOSE p \in FreeAddrs(h) : \A q \in FreeAddrs(h) : p <= q

\* Objects alive in block p.
LiveIn(h, p) == Cardinality({i \in DOMAIN h[p].slots : h[p].slots[i] # Raw})

\* The running tally of one operation: the heap, and what was done to it
\* (touched: the slots <<p, i>> an object was constructed in or a destructor
\* was run on).
Tally(h) ==
  [heap |-> h, constructs |-> 0, destroys |-> 0, raw |-> 0, allocs |-> 0,
   deallocs |-> 0, lost |-> 0, badFree |-> "none", touched |-> {}]

\* allocator_.allocate(n): a fresh block of n raw slots (n = 0 yields a
\* distinct non-null pointer, as operator new(0) does).
Allocate(m, n) ==
  [m EXCEPT !.heap[NewAddr(m.heap)] = [live |-> TRUE, cap |-> n, slots |-> [i \in 1..n |-> Raw]],
            !.allocs = @ + 1]

\* allocator_.deallocate(p, n).  With p null nothing is released; p
\* naming no allocated block is a second release.
Deallocate(m, p) ==
  IF p = NULL
    THEN [m EXCEPT !.badFree = "null"]
  ELSE IF ~m.heap[p].live
    THEN [m EXCEPT !.badFree = "double"]
    ELSE [m EXCEPT !.heap[p] = FreeBlock,
                   !.deallocs = @ + 1,
                   !.lost = @ + LiveIn(m.heap, p)]

\* allocator_.deallocate on a pointer that was never initialized and happens
\* not to be null.
DeallocateWild(m) == [m EXCEPT !.badFree = "wild"]

\* ::new (p + i - 1) T(v)
Construct(m, p, i, v) ==
  [m EXCEPT !.heap[p].slots[i] = v, !.constructs = @ + 1,
            !.touched = @ \cup {<<p, i>>}]

\* std::destroy(p + lo - 1, p + hi): runs ~T() on every slot of lo..hi,
\* whether or not it holds an object.
Destroy(m, p, lo, hi) ==
  IF hi < lo THEN m
  ELSE [m EXCEPT !.heap[p].slots = [i \in DOMAIN @ |-> IF i \in lo..hi THEN Raw ELSE @[i]],
                 !.destroys = @ + (hi - lo + 1),
                 !.touched = @ \cup {<<p, i>> : i \in lo..hi},
                 !.raw = @ + Cardinality({i \in lo..hi : m.heap[p].slots[i] = Raw})]

\* ------------------------------------------------------ injected failures
\* alloc: the allocation of the operation throws.  ctor = k > 0: the k-th
\* element construction of the operation throws (copy, move or default).
Faults ==
  {[alloc |-> TRUE, ctor |-> 0]} \cup {[alloc |-> FALSE, ctor |-> k] : k \in 0..CapBound}

\* The indeterminate values a pointer read before its first write may have
\* that make a difference: null or not.  It is read only on the path
\* where the allocation threw.
Garbage(f) == IF f.alloc THEN BOOLEAN ELSE {FALSE}

NoFault == [alloc |-> FALSE, ctor |-> 0]

\* ---------------------------------------------------- <memory> algorithms
\* std::uninitialized_move(src, src + n, dst), its k-th move construction
\* throwing when k \in 1..n.  Each move leaves its source moved-from.  On a
\* throw the algorithm itself destroys what it built in dst.
UninitializedMove(m, src, n, dst, k) ==
  LET threw == k \in 1..n
      done  == IF threw THEN k - 1 ELSE n
  IN IF n = 0 THEN [m |-> m, threw |-> FALSE]
     ELSE [m |-> [m EXCEPT
                   !.heap[src].slots = [i \in DOMAIN @ |-> IF i <= done THEN Moved ELSE @[i]],
                   !.heap[dst].slots = [i \in DOMAIN @ |->
                        IF i <= done /\ ~threw THEN m.heap[src].slots[i] ELSE @[i]],
                   !.touched = @ \cup {<<dst, i>> : i \in 1..done},
                   !.constructs = @ + done,
                   !.destroys = @ + (IF threw THEN done ELSE 0)],
           threw |-> threw]

\* std::uninitialized_fill value-initializing the elements instead of
\* copying v.
UninitializedFill_ValueInit(m, p, lo, hi, v, k) ==
  LET n     == IF hi < lo THEN 0 ELSE hi - lo + 1
      threw == k \in 1..n
      done  == IF threw THEN k - 1 ELSE n
  IN IF n = 0 THEN [m |-> m, threw |-> FALSE]
     ELSE [m |-> [m EXCEPT
                   !.heap[p].slots = [i \in DOMAIN @ |->
                        IF i \in lo..hi /\ ~threw THEN Dflt ELSE @[i]],
                   !.touched = @ \cup {<<p, i>> : i \in lo..(lo + done - 1)},
                   !.constructs = @ + done,
                   !.destroys = @ + (IF threw THEN done ELSE 0)],
           threw |-> threw]

\* std::uninitialized_fill(p + lo - 1, p + hi, v), and with v the value of
\* T() std::uninitialized_value_construct_n and std::uninitialized_default_
\* construct_n: the k-th construction throws when k \in 1..(hi - lo + 1),
\* and the algorithm itself destroys what it built before rethrowing.
UninitializedFill(m, p, lo, hi, v, k) ==
  LET n     == IF hi < lo THEN 0 ELSE hi - lo + 1
      threw == k \in 1..n
      done  == IF threw THEN k - 1 ELSE n
  IN IF n = 0 THEN [m |-> m, threw |-> FALSE]
     ELSE [m |-> [m EXCEPT
                   !.heap[p].slots = [i \in DOMAIN @ |->
                        IF i \in lo..hi /\ ~threw THEN v ELSE @[i]],
                   !.touched = @ \cup {<<p, i>> : i \in lo..(lo + done - 1)},
                   !.constructs = @ + done,
                   !.destroys = @ + (IF threw THEN done ELSE 0)],
           threw |-> threw]

\* ------------------------------------------------------------ the object
\* The fields of vector t.
This(t) == [vector_ |-> vector_[t], size_ |-> size_[t], capacity_ |-> capacity_[t]]

NoVector == [vector_ |-> NULL, size_ |-> 0, capacity_ |-> 0]

\* A const T& argument: a value living outside the vector, or a reference
\* to element i - 1 of the vector itself.
ArgExt(v) == [self |-> FALSE, v |-> v, i |-> 0]
ArgSelf(i) == [self |-> TRUE, v |-> Dflt, i |-> i]
Args(c) == {ArgExt(v) : v \in Values} \cup {ArgSelf(i) : i \in 1..c.size_}

\* What the reference denotes: for a reference into the vector, whatever
\* the slot of the block it was taken from holds now.
Deref(h, c, arg) == IF arg.self THEN h[c.vector_].slots[arg.i] ELSE arg.v

\* void DeallocateMemory()
DeallocateMemory(m, c) ==
  IF c.vector_ # NULL THEN Deallocate(m, c.vector_) ELSE m

\* void DestroyElements(std::size_t size)
DestroyElements(m, c, size) == Destroy(m, c.vector_, 1, size)

\* The outcome of an operation on a vector: the tally, the vector's fields
\* afterwards, how the operation ended and which branch it took.
Out(m, c, result, path) == [m |-> m, c |-> c, result |-> result, path |-> path]

\* for (; i < n; i++) new (p + i) T(vals[i]): the hand-written construction
\* loops of the constructors.  The k-th construction throws when k \in 1..n;
\* done is the value of the loop counter then (nothing is destroyed here).
ConstructLoop(m, p, n, vals, k) ==
  LET threw == k \in 1..n
      done  == IF threw THEN k - 1 ELSE n
  IN IF n = 0 THEN [m |-> m, threw |-> FALSE, done |-> 0]
     ELSE [m |-> [m EXCEPT
                   !.heap[p].slots = [i \in DOMAIN @ |-> IF i <= done THEN vals[i] ELSE @[i]],
                   !.touched = @ \cup {<<p, i>> : i \in 1..done},
                   !.constructs = @ + done],
           threw |-> threw, done |-> done]

\* ------------------------------------------------------------ constructors
\* explicit Vector(std::size_t capacity).  When AllocateMemory throws,
\* vector_ was never written and the catch block reads it: garbage tells
\* whether the indeterminate pointer is non-null.
VectorSized(h, n, f, garbage) ==
  IF n > 0
    THEN IF f.alloc \/ ~CanAllocate(h)
           THEN Out(IF garbage THEN DeallocateWild(Tally(h)) ELSE Tally(h),
                    NoVector, "bad_alloc", "ctor")
           ELSE LET p == NewAddr(h)
                    r == UninitializedFill(Allocate(Tally(h), n), p, 1, n, Dflt, f.ctor)
                IN IF r.threw
                     THEN Out(DeallocateMemory(r.m, [vector_ |-> p, size_ |-> n, capacity_ |-> n]),
                              NoVector, "ctor_threw", "ctor")
                     ELSE Out(r.m, [vector_ |-> p, size_ |-> n, capacity_ |-> n], "ok", "ctor")
    ELSE Out(Tally(h), NoVector, "ok", "ctor")

\* Vector(std::size_t size, const T& value) with vals = n copies of value,
\* Vector(Iterator first, Iterator last) and Vector(std::initializer_list)
\* with vals the sequence given.
VectorFrom(h, vals, f, garbage) ==
  LET n == Len(vals)
  IN IF f.alloc \/ ~CanAllocate(h)
       THEN Out(IF garbage THEN DeallocateWild(Tally(h)) ELSE Tally(h),
                NoVector, "bad_alloc", "ctor")
       ELSE LET p  == NewAddr(h)
                lp == ConstructLoop(Allocate(Tally(h), n), p, n, vals, f.ctor)
                c  == [vector_ |-> p, size_ |-> n, capacity_ |-> n]
            IN IF lp.threw
                 THEN Out(DeallocateMemory(Destroy(lp.m, p, 1, lp.done), c),
                          NoVector, "ctor_threw", "ctor")
                 ELSE Out(lp.m, c, "ok", "ctor")

\* Vector(const Vector& other) with the deallocate of the catch block left
\* out.
VectorCopy_NoRelease(h, other, f, garbage) ==
  IF f.alloc \/ ~CanAllocate(h)
    THEN Out(IF garbage THEN DeallocateWild(Tally(h)) ELSE Deallocate(Tally(h), NULL),
             NoVector, "bad_alloc", "ctor")
    ELSE LET p  == NewAddr(h)
             lp == ConstructLoop(Allocate(Tally(h), other.capacity_), p, other.size_,
                                 [i \in 1..other.size_ |-> h[other.vector_].slots[i]], f.ctor)
         IN IF lp.threw
              THEN Out(Destroy(lp.m, p, 1, lp.done), NoVector, "ctor_threw", "ctor")
              ELSE Out(lp.m, [vector_ |-> p, size_ |-> other.size_, capacity_ |-> other.capacity_],
                       "ok", "ctor")

\* Vector(const Vector& other) allocating other.size_ slots and ending with
\* that capacity.
VectorCopy_FitToSize(h, other, f, garbage) ==
  IF f.alloc \/ ~CanAllocate(h)
    THEN Out(IF garbage THEN DeallocateWild(Tally(h)) ELSE Deallocate(Tally(h), NULL),
             NoVector, "bad_alloc", "ctor")
    ELSE LET p  == NewAddr(h)
             lp == ConstructLoop(Allocate(Tally(h), other.size_), p, other.size_,
                                 [i \in 1..other.size_ |-> h[other.vector_].slots[i]], f.ctor)
         IN IF lp.threw
              THEN Out(Deallocate(Destroy(lp.m, p, 1, lp.done), p), NoVector, "ctor_threw", "ctor")
              ELSE Out(lp.m, [vector_ |-> p, size_ |-> other.size_, capacity_ |-> other.size_],
                       "ok", "ctor")

\* Vector(const Vector& other)
VectorCopy(h, other, f, garbage) ==
  IF f.alloc \/ ~CanAllocate(h)
    THEN Out(IF garbage THEN DeallocateWild(Tally(h)) ELSE Deallocate(Tally(h), NULL),
             NoVector, "bad_alloc", "ctor")
    ELSE LET p  == NewAddr(h)
             lp == ConstructLoop(Allocate(Tally(h), other.capacity_), p, other.size_,
                                 [i \in 1..other.size_ |-> h[other.vector_].slots[i]], f.ctor)
         IN IF lp.threw
              THEN Out(Deallocate(Destroy(lp.m, p, 1, lp.done), p), NoVector, "ctor_threw", "ctor")
              ELSE Out(lp.m, [vector_ |-> p, size_ |-> other.size_, capacity_ |-> other.capacity_],
                       "ok", "ctor")

\* ~Vector()
VectorDtor(m, c) == DeallocateMemory(DestroyElements(m, c, c.size_), c)

\* ---------------------------------------------------------------- capacity
\* void Reallocate(std::size_t new_capacity)
Reallocate(h, c, new_capacity, f) ==
  IF f.alloc \/ ~CanAllocate(h)
    THEN Out(Tally(h), c, "bad_alloc", "realloc")
    ELSE LET new_vector == NewAddr(h)
             mv == UninitializedMove(Allocate(Tally(h), new_capacity),
                                     c.vector_, c.size_, new_vector, f.ctor)
         IN IF mv.threw
              THEN Out(Deallocate(Destroy(mv.m, new_vector, 1, c.size_), new_vector),
                       c, "move_threw", "realloc")
              ELSE Out(DeallocateMemory(DestroyElements(mv.m, c, c.size_), c),
                       [c EXCEPT !.vector_ = new_vector, !.capacity_ = new_capacity],
                       "ok", "realloc")

\* Reserve reallocating also when the capacity asked for is the one held.
Reserve_AtLeast(h, c, new_capacity, f) ==
  IF new_capacity >= c.capacity_
    THEN Reallocate(h, c, new_capacity, f)
    ELSE Out(Tally(h), c, "ok", "noop")

\* void Reserve(std::size_t new_capacity)
Reserve(h, c, new_capacity, f) ==
  IF new_capacity > c.capacity_
    THEN Reallocate(h, c, new_capacity, f)
    ELSE Out(Tally(h), c, "ok", "noop")

\* ShrinkToFit reallocating to the capacity held instead of the size.
ShrinkToFit_KeepCapacity(h, c, f) ==
  IF c.size_ < c.capacity_
    THEN Reallocate(h, c, c.capacity_, f)
    ELSE Out(Tally(h), c, "ok", "noop")

\* void ShrinkToFit()
ShrinkToFit(h, c, f) ==
  IF c.size_ < c.capacity_
    THEN Reallocate(h, c, c.size_, f)
    ELSE Out(Tally(h), c, "ok", "noop")

\* void Resize(SizeType new_size, const ValueType& value)
ResizeValue(h, c, new_size, value, f) ==
  IF new_size > c.capacity_
    THEN IF f.alloc \/ ~CanAllocate(h)
           THEN Out(Deallocate(Tally(h), NULL), c, "bad_alloc", "grow")
           ELSE LET new_vector == NewAddr(h)
                    mv == UninitializedMove(Allocate(Tally(h), new_size),
                                            c.vector_, c.size_, new_vector, f.ctor)
                    fl == UninitializedFill(mv.m, new_vector, c.size_ + 1, new_size,
                                            Deref(mv.m.heap, c, value), f.ctor - c.size_)
                IN IF mv.threw
                     THEN Out(Deallocate(mv.m, new_vector), c, "move_threw", "grow")
                   ELSE IF fl.threw
                     THEN Out(Deallocate(Destroy(fl.m, new_vector, 1, c.size_), new_vector),
                              c, "ctor_threw", "grow")
                   ELSE Out(DeallocateMemory(DestroyElements(fl.m, c, c.size_), c),
                            [vector_ |-> new_vector, size_ |-> new_size, capacity_ |-> new_size],
                            "ok", "grow")
  ELSE IF new_size > c.size_
    THEN LET fl == UninitializedFill(Tally(h), c.vector_, c.size_ + 1, new_size,
                                     Deref(h, c, value), f.ctor)
         IN IF fl.threw
              THEN Out(Destroy(fl.m, c.vector_, c.size_ + 1, new_size), c, "ctor_threw", "inplace")
              ELSE Out(fl.m, [c EXCEPT !.size_ = new_size], "ok", "inplace")
  ELSE IF new_size < c.size_
    THEN Out(Destroy(Tally(h), c.vector_, new_size + 1, c.size_),
             [c EXCEPT !.size_ = new_size], "ok", "shrink")
  ELSE Out(Tally(h), c, "ok", "noop")

\* void Resize(SizeType new_size)
ResizeDefault(h, c, new_size, f) ==
  IF new_size > c.capacity_
    THEN IF f.alloc \/ ~CanAllocate(h)
           THEN Out(Deallocate(Tally(h), NULL), c, "bad_alloc", "grow")
           ELSE LET new_vector == NewAddr(h)
                    mv == UninitializedMove(Allocate(Tally(h), new_size),
                                            c.vector_, c.size_, new_vector, f.ctor)
                    fl == UninitializedFill(mv.m, new_vector, c.size_ + 1, new_size,
                                            Dflt, f.ctor - c.size_)
                IN IF mv.threw
                     \* new_vector_end == new_vector: the catch destroys nothing
                     THEN Out(Deallocate(mv.m, new_vector), c, "move_threw", "grow")
                   ELSE IF fl.threw
                     THEN Out(Deallocate(Destroy(fl.m, new_vector, 1, c.size_), new_vector),
                              c, "ctor_threw", "grow")
                   ELSE Out(DeallocateMemory(DestroyElements(fl.m, c, c.size_), c),
                            [vector_ |-> new_vector, size_ |-> new_size, capacity_ |-> new_size],
                            "ok", "grow")
  ELSE IF new_size > c.size_
    THEN LET fl == UninitializedFill(Tally(h), c.vector_, c.size_ + 1, new_size, Dflt, f.ctor)
         IN IF fl.threw
              THEN Out(Destroy(fl.m, c.vector_, c.size_ + 1, new_size), c, "ctor_threw", "inplace")
              ELSE Out(fl.m, [c EXCEPT !.size_ = new_size], "ok", "inplace")
  ELSE IF new_size < c.size_
    THEN Out(Destroy(Tally(h), c.vector_, new_size + 1, c.size_),
             [c EXCEPT !.size_ = new_size], "ok", "shrink")
  ELSE Out(Tally(h), c, "ok", "noop")

\* ---------------------------------------------------------------- mutation
\* void Clear()
Clear(h, c) == Out(DestroyElements(Tally(h), c, c.size_), [c EXCEPT !.size_ = 0], "ok", "clear")

\* PopBack with the destroy_at left out.
PopBack_NoDestroy(h, c) ==
  IF c.size_ > 0
    THEN Out(Tally(h), [c EXCEPT !.size_ = c.size_ - 1], "ok", "pop")
    ELSE Out(Tally(h), c, "ok", "noop")

\* void PopBack()
PopBack(h, c) ==
  IF c.size_ > 0
    THEN Out(Destroy(Tally(h), c.vector_, c.size_, c.size_),
             [c EXCEPT !.size_ = c.size_ - 1], "ok", "pop")
    ELSE Out(Tally(h), c, "ok", "noop")

\* capacity_ == 0 ? 1 : 2 * capacity_, with the doubling left out.
GrowthCapacity_PlusOne(capacity) == capacity + 1

\* std::size_t new_capacity = capacity_ == 0 ? 1 : 2 * capacity_;
GrowthCapacity(capacity) == IF capacity = 0 THEN 1 ELSE 2 * capacity

\* PushBack with size_ == capacity_: the new block, the move of the
\* elements, the new element behind them, and the release of the old block.
PushBackGrow(h, c, value, f) ==
  LET new_capacity == GrowthCapacity(c.capacity_)
  IN IF f.alloc \/ ~CanAllocate(h)
       THEN Out(Deallocate(Tally(h), NULL), c, "bad_alloc", "grow")
       ELSE LET new_vector == NewAddr(h)
                mv == UninitializedMove(Allocate(Tally(h), new_capacity),
                                        c.vector_, c.size_, new_vector, f.ctor)
                built == Construct(mv.m, new_vector, c.size_ + 1,
                                   Deref(mv.m.heap, c, value))
            IN IF mv.threw
                 \* new_vector_end == new_vector
                 THEN Out(Deallocate(Destroy(mv.m, new_vector, 1, 1), new_vector),
                          c, "move_threw", "grow")
               ELSE IF f.ctor = c.size_ + 1
                 \* new_vector_end == new_vector + size_
                 THEN Out(Deallocate(Destroy(mv.m, new_vector, 1, c.size_ + 1), new_vector),
                          c, "ctor_threw", "grow")
               ELSE Out(DeallocateMemory(DestroyElements(built, c, c.size_), c),
                        [vector_ |-> new_vector, size_ |-> c.size_ + 1,
                         capacity_ |-> new_capacity],
                        "ok", "grow")

\* PushBack with size_ < capacity_: the element is constructed in place.
PushBackInPlace(h, c, value, f) ==
  IF f.ctor = 1
    THEN Out(Destroy(Tally(h), c.vector_, c.size_ + 1, c.size_ + 1), c, "ctor_threw", "inplace")
    ELSE Out(Construct(Tally(h), c.vector_, c.size_ + 1, Deref(h, c, value)),
             [c EXCEPT !.size_ = c.size_ + 1], "ok", "inplace")

\* void PushBack(ConstReference value) and void PushBack(ValueType&& value):
\* the two bodies differ only in T(value) against T(std::move(value)).
PushBackBody(h, c, value, f) ==
  IF c.size_ = c.capacity_
    THEN PushBackGrow(h, c, value, f)
    ELSE PushBackInPlace(h, c, value, f)

\* Vector(Vector&& other) noexcept: the fields this and other end with.
VectorMove(other) == [this |-> other, other |-> NoVector]

\* void Swap(Vector& other): the fields this and other end with.
Swap(c, other) == [this |-> other, other |-> c]

\* Vector& operator=(const Vector& other); same tells this == &other.
CopyAssign(h, c, other, same, f, garbage) ==
  IF ~same
    THEN LET temp == VectorCopy(h, other, f, garbage)
             sw   == Swap(c, temp.c)
         IN IF temp.result # "ok"
              THEN Out(temp.m, c, temp.result, "copy")
              ELSE Out(VectorDtor(temp.m, sw.other), sw.this, "ok", "copy")
    ELSE Out(Tally(h), c, "ok", "noop")

\* operator=(Vector&&) with the DeallocateMemory() left out.
MoveAssign_NoRelease(h, c, other) ==
  [m |-> DestroyElements(Tally(h), c, c.size_),
   this |-> other, other |-> NoVector]

\* Vector& operator=(Vector&& other) noexcept with this != &other: the
\* tally, and the fields this and other end with.
MoveAssign(h, c, other) ==
  [m |-> DeallocateMemory(DestroyElements(Tally(h), c, c.size_), c),
   this |-> other, other |-> NoVector]

\* ------------------------------------------------------------------ state
\* The record kept of the most recent operation: which, on which vector,
\* how it ended, the branch it took, and whether it passed deallocate a
\* pointer that names no allocated block ("null", "wild", "double").
NoOp == [op |-> "none", t |-> "a", result |-> "ok", path |-> "noop", badFree |-> "none"]

Log(op, t, m, result, path) ==
  [op |-> op, t |-> t, result |-> result, path |-> path, badFree |-> m.badFree]

\* The operation ran into undefined behaviour: a destructor ran on a slot
\* holding no object, or an indeterminate pointer was deallocated.
HasUB(m) == m.raw > 0 \/ m.badFree \in {"wild", "double"}

\* No PushBack counted yet: the calls, the element constructions they made
\* (copies and moves), the moves among those, and the allocations.
NoWork == [pushes |-> 0, constructs |-> 0, moves |-> 0, allocs |-> 0]

InitVectors ==
  /\ exists = [t \in objs |-> FALSE]
  /\ vector_ = [t \in objs |-> NULL]
  /\ size_ = [t \in objs |-> 0]
  /\ capacity_ = [t \in objs |-> 0]
  /\ heap = [p \in Addrs |-> FreeBlock]
  /\ last = NoOp
  /\ destroyedRaw = 0
  /\ lostElems = 0
  /\ crashed = FALSE
  /\ work = NoWork

\* The program is running and its behaviour is still defined: once a
\* destructor has run on a slot holding no object only the vectors'
\* destructors are followed further.
Running == ~crashed /\ destroyedRaw = 0

\* The state an operation leaves: tally m, the vectors' new lifetimes and
\* fields.  Where the operation ran into undefined behaviour the
\* process may instead have been aborted in the middle of it.
Commit(op, t, m, result, path, ex, vs, ss, cs) ==
  \/ /\ heap' = m.heap
     /\ exists' = ex
     /\ vector_' = vs
     /\ size_' = ss
     /\ capacity_' = cs
     /\ last' = Log(op, t, m, result, path)
     /\ destroyedRaw' = destroyedRaw + m.raw
     /\ lostElems' = lostElems + m.lost
     /\ UNCHANGED <<objs, crashed>>
  \/ /\ HasUB(m)
     /\ crashed' = TRUE
     /\ last' = Log(op, t, m, "abort", path)
     /\ destroyedRaw' = destroyedRaw + m.raw
     /\ UNCHANGED <<objs, exists, vector_, size_, capacity_, heap, lostElems>>

\* An injected fault that the operation ran into: a fault set at an
\* allocation or construction the operation never reaches is no fault.
FaultHit(f, out) ==
  /\ f.alloc => out.result = "bad_alloc"
  /\ f.ctor > 0 => out.result \in {"move_threw", "ctor_threw"}

\* An operation on vector t alone, which exists afterwards iff alive.
Commit1(op, t, out, alive) ==
  Commit(op, t, out.m, out.result, out.path,
         [exists EXCEPT ![t] = alive],
         [vector_ EXCEPT ![t] = out.c.vector_],
         [size_ EXCEPT ![t] = out.c.size_],
         [capacity_ EXCEPT ![t] = out.c.capacity_])
  /\ UNCHANGED work

\* An operation on t that also rewrites the fields of o.
Commit2(op, t, o, m, this, other) ==
  Commit(op, t, m, "ok", "move",
         [exists EXCEPT ![t] = TRUE],
         [[vector_ EXCEPT ![t] = this.vector_] EXCEPT ![o] = other.vector_],
         [[size_ EXCEPT ![t] = this.size_] EXCEPT ![o] = other.size_],
         [[capacity_ EXCEPT ![t] = this.capacity_] EXCEPT ![o] = other.capacity_])
  /\ UNCHANGED work

\* ---------------------------------------------------------------- actions
\* Vector<T> t;
DefaultCtor(t) ==
  /\ Running /\ ~exists[t]
  /\ Commit1("Vector", t, Out(Tally(heap), NoVector, "ok", "ctor"), TRUE)

\* Vector<T> t(n);
SizedCtor(t) ==
  /\ Running /\ ~exists[t]
  /\ \E n \in 0..CapBound, f \in Faults : \E garbage \in Garbage(f) :
       \E out \in {VectorSized(heap, n, f, garbage)} :
       FaultHit(f, out) /\ Commit1("VectorSized", t, out, out.result = "ok")

\* Vector<T> t(n, value);
ValueCtor(t) ==
  /\ Running /\ ~exists[t]
  /\ \E n \in 0..CapBound, v \in Values, f \in Faults : \E garbage \in Garbage(f) :
       \E out \in {VectorFrom(heap, [i \in 1..n |-> v], f, garbage)} :
       FaultHit(f, out) /\ Commit1("VectorValue", t, out, out.result = "ok")

\* Vector<T> t(first, last);  Vector<T> t{...};
RangeCtor(t) ==
  /\ Running /\ ~exists[t]
  /\ \E n \in 0..CapBound, f \in Faults : \E garbage \in Garbage(f), vals \in [1..n -> Values] :
       \E out \in {VectorFrom(heap, vals, f, garbage)} :
       FaultHit(f, out) /\ Commit1("VectorRange", t, out, out.result = "ok")

\* Vector<T> t(o);
CopyCtor(t, o) ==
  /\ Running /\ ~exists[t] /\ exists[o]
  /\ \E f \in Faults : \E garbage \in Garbage(f) :
       \E out \in {VectorCopy(heap, This(o), f, garbage)} :
       FaultHit(f, out) /\ Commit1("VectorCopy", t, out, out.result = "ok")

\* Vector<T> t(std::move(o));
MoveCtor(t, o) ==
  /\ Running /\ ~exists[t] /\ exists[o]
  /\ LET r == VectorMove(This(o))
     IN Commit2("VectorMove", t, o, Tally(heap), r.this, r.other)

\* t.~Vector()
Dtor(t) ==
  /\ ~crashed /\ exists[t]
  /\ Commit1("Dtor", t, Out(VectorDtor(Tally(heap), This(t)), NoVector, "ok", "dtor"), FALSE)

\* t = o;
CopyAssignOp(t, o) ==
  /\ Running /\ exists[t] /\ exists[o]
  /\ \E f \in Faults : \E garbage \in Garbage(f) :
       \E out \in {CopyAssign(heap, This(t), This(o), t = o, f, garbage)} :
       FaultHit(f, out) /\ Commit1("CopyAssign", t, out, TRUE)

\* t = std::move(o);
MoveAssignOp(t, o) ==
  /\ Running /\ exists[t] /\ exists[o]
  /\ IF t # o
       THEN LET r == MoveAssign(heap, This(t), This(o))
            IN Commit2("MoveAssign", t, o, r.m, r.this, r.other)
       ELSE Commit1("MoveAssign", t, Out(Tally(heap), This(t), "ok", "noop"), TRUE)

\* t.Swap(o);
SwapOp(t, o) ==
  /\ Running /\ exists[t] /\ exists[o]
  /\ LET r == Swap(This(t), This(o))
     IN Commit2("Swap", t, o, Tally(heap), r.this, r.other)

\* t.Reserve(n);
ReserveOp(t) ==
  /\ Running /\ exists[t]
  /\ \E n \in 0..CapBound, f \in Faults :
       \E out \in {Reserve(heap, This(t), n, f)} :
       FaultHit(f, out) /\ Commit1("Reserve", t, out, TRUE)

\* t.ShrinkToFit();
ShrinkToFitOp(t) ==
  /\ Running /\ exists[t]
  /\ \E f \in Faults :
       \E out \in {ShrinkToFit(heap, This(t), f)} :
       FaultHit(f, out) /\ Commit1("ShrinkToFit", t, out, TRUE)

\* t.Resize(n, value);
ResizeValueOp(t) ==
  /\ Running /\ exists[t]
  /\ \E n \in 0..CapBound, value \in Args(This(t)), f \in Faults :
       \E out \in {ResizeValue(heap, This(t), n, value, f)} :
       FaultHit(f, out) /\ Commit1("ResizeValue", t, out, TRUE)

\* t.Resize(n);
ResizeDefaultOp(t) ==
  /\ Running /\ exists[t]
  /\ \E n \in 0..CapBound, f \in Faults :
       \E out \in {ResizeDefault(heap, This(t), n, f)} :
       FaultHit(f, out) /\ Commit1("Resize", t, out, TRUE)

\* t.Clear();
ClearOp(t) ==
  /\ Running /\ exists[t]
  /\ Commit1("Clear", t, Clear(heap, This(t)), TRUE)

\* t.PopBack();
PopBackOp(t) ==
  /\ Running /\ exists[t]
  /\ Commit1("PopBack", t, PopBack(heap, This(t)), TRUE)

\* The capacity a growing PushBack asks for stays within the bound.
PushFits(c) == c.size_ < c.capacity_ \/ GrowthCapacity(c.capacity_) <= CapBound

\* t.PushBack(value); with value an lvalue, possibly an element of t
PushBack(t) ==
  /\ Running /\ exists[t] /\ PushFits(This(t))
  /\ \E value \in Args(This(t)), f \in Faults :
       \E out \in {PushBackBody(heap, This(t), value, f)} :
       FaultHit(f, out) /\ Commit1("PushBack", t, out, TRUE)

\* t.PushBack(T(...)); with value a temporary
PushBackMove(t) ==
  /\ Running /\ exists[t] /\ PushFits(This(t))
  /\ \E v \in Values, f \in Faults :
       \E out \in {PushBackBody(heap, This(t), ArgExt(v), f)} :
       FaultHit(f, out) /\ Commit1("PushBackMove", t, out, TRUE)

\* t.PushBack(value); with no failure injected and the constructor calls
\* and allocations it makes counted: out.m.constructs element constructions,
\* all but the one of the new element being moves of existing elements.
PushBackCounted(t) ==
  /\ Running /\ exists[t] /\ PushFits(This(t))
  /\ \E v \in Values :
       \E out \in {PushBackBody(heap, This(t), ArgExt(v), NoFault)} :
         /\ Commit("PushBack", t, out.m, out.result, out.path, exists,
                   [vector_ EXCEPT ![t] = out.c.vector_],
                   [size_ EXCEPT ![t] = out.c.size_],
                   [capacity_ EXCEPT ![t] = out.c.capacity_])
         /\ work' = [pushes |-> work.pushes + 1,
                     constructs |-> work.constructs + out.m.constructs,
                     moves |-> work.moves + out.m.constructs - 1,
                     allocs |-> work.allocs + out.m.allocs]

\* A program with the one vector a: every operation on it, the binary ones
\* with itself as the argument.
Init == objs = {"a"} /\ InitVectors

Next ==
  \/ \E t \in objs : DefaultCtor(t)
  \/ \E t \in objs : SizedCtor(t)
  \/ \E t \in objs : ValueCtor(t)
  \/ \E t \in objs : RangeCtor(t)
  \/ \E t \in objs : Dtor(t)
  \/ \E t \in objs : ReserveOp(t)
  \/ \E t \in objs : ShrinkToFitOp(t)
  \/ \E t \in objs : ResizeValueOp(t)
  \/ \E t \in objs : ResizeDefaultOp(t)
  \/ \E t \in objs : ClearOp(t)
  \/ \E t \in objs : PopBackOp(t)
  \/ \E t \in objs : PushBack(t)
  \/ \E t \in objs : PushBackMove(t)
  \/ \E t \in objs : CopyAssignOp(t, t)
  \/ \E t \in objs : MoveAssignOp(t, t)
  \/ \E t \in objs : SwapOp(t, t)

Spec == Init /\ [][Next]_vars

\* A program with the two vectors a and b.
InitPair == objs = {"a", "b"} /\ InitVectors

NextPair ==
  \/ \E t \in objs : DefaultCtor(t)
  \/ \E t \in objs : SizedCtor(t)
  \/ \E t \in objs : ValueCtor(t)
  \/ \E t \in objs : RangeCtor(t)
  \/ \E t \in objs : Dtor(t)
  \/ \E t \in objs : ReserveOp(t)
  \/ \E t \in objs : ShrinkToFitOp(t)
  \/ \E t \in objs : ResizeValueOp(t)
  \/ \E t \in objs : ResizeDefaultOp(t)
  \/ \E t \in objs : ClearOp(t)
  \/ \E t \in objs : PopBackOp(t)
  \/ \E t \in objs : PushBack(t)
  \/ \E t \in objs : PushBackMove(t)
  \/ \E t \in objs, o \in objs : CopyCtor(t, o)
  \/ \E t \in objs, o \in objs : MoveCtor(t, o)
  \/ \E t \in objs, o \in objs : CopyAssignOp(t, o)
  \/ \E t \in objs, o \in objs : MoveAssignOp(t, o)
  \/ \E t \in objs, o \in objs : SwapOp(t, o)

SpecPair == InitPair /\ [][NextPair]_vars

\* A program with the two vectors v and w that builds them from lists,
\* copies, moves and swaps them, and changes them with PushBack, PopBack,
\* Resize and Clear.
InitCopy == objs = {"v", "w"} /\ InitVectors

NextCopy ==
  \/ \E t \in objs : RangeCtor(t)
  \/ \E t \in objs : Dtor(t)
  \/ \E t \in objs : ResizeDefaultOp(t)
  \/ \E t \in objs : ClearOp(t)
  \/ \E t \in objs : PopBackOp(t)
  \/ \E t \in objs : PushBack(t)
  \/ \E t \in objs, o \in objs : CopyCtor(t, o)
  \/ \E t \in objs, o \in objs : MoveCtor(t, o)
  \/ \E t \in objs, o \in objs : CopyAssignOp(t, o)
  \/ \E t \in objs, o \in objs : MoveAssignOp(t, o)
  \/ \E t \in objs, o \in objs : SwapOp(t, o)

SpecCopy == InitCopy /\ [][NextCopy]_vars

\* A program that default-constructs the vector v and only calls PushBack.
InitCount == objs = {"v"} /\ InitVectors

NextCount ==
  \/ \E t \in objs : DefaultCtor(t)
  \/ \E t \in objs : PushBackCounted(t)

SpecCount == InitCount /\ [][NextCount]_vars

\* ------------------------------------------------------------ type check
TypeOK ==
  /\ objs \subseteq {"a", "b", "v", "w"}
  /\ exists \in [objs -> BOOLEAN]
  /\ vector_ \in [objs -> {NULL} \cup Addrs]
  /\ size_ \in [objs -> 0..CapBound]
  /\ capacity_ \in [objs -> 0..CapBound]
  /\ \A p \in Addrs : heap[p].cap = Len(heap[p].slots)
  /\ crashed \in BOOLEAN

\* ----------------------------------------------------------------- claims
\* Element i - 1 of the vector with fields c in heap h.
Elem(h, c, i) == h[c.vector_].slots[i]

\* The elements of the vector with fields c in heap h, in index order.
Elems(h, c) == [i \in 1..c.size_ |-> Elem(h, c, i)]

\* The most recent step was operation op ending with result.
Did(ops, results) == last.op \in ops /\ last.result \in results

Failures == {"bad_alloc", "move_threw", "ctor_threw"}

\* C1: every existing vector has 0 <= size_ <= capacity_, owns an allocated
\* block of capacity_ slots when capacity_ > 0, holds an object in every
\* slot of [0, size_) and none in any slot of [size_, capacity_), whatever
\* operations ran before and however they ended.
C1_Representation ==
  \A t \in objs : exists[t] =>
    /\ 0 <= size_[t] /\ size_[t] <= capacity_[t]
    /\ capacity_[t] > 0 =>
         /\ vector_[t] \in Addrs
         /\ heap[vector_[t]].live
         /\ heap[vector_[t]].cap = capacity_[t]
         /\ \A i \in 1..capacity_[t] : (i <= size_[t]) <=> (heap[vector_[t]].slots[i] # Raw)

\* A vector with live elements and spare capacity, right after an operation
\* that ended in a failure.
C1_Witness ==
  /\ last.result \in Failures
  /\ \E t \in objs : exists[t] /\ 0 < size_[t] /\ size_[t] < capacity_[t]

\* The fields of every vector and every block are as before the step.
SameVectors ==
  /\ exists' = exists /\ vector_' = vector_
  /\ size_' = size_ /\ capacity_' = capacity_

SameMemory == SameVectors /\ heap' = heap

\* The step releases no live object's storage and runs no destructor on a
\* slot holding no object.
CleanStep == destroyedRaw' = destroyedRaw /\ lostElems' = lostElems

\* The step just taken was operation op on last'.t, ending with result on
\* the branch path.
Step(ops, results, paths) ==
  last'.op \in ops /\ last'.result \in results /\ last'.path \in paths

PushOps == {"PushBack", "PushBackMove"}
ResizeOps == {"Resize", "ResizeValue"}
ReallocOps == {"Reserve", "ShrinkToFit"}
CtorOps == {"VectorSized", "VectorValue", "VectorRange", "VectorCopy"}

\* max(1, 2 * c)
Doubled(c) == IF 2 * c > 1 THEN 2 * c ELSE 1

\* C2: a successful PushBack(x) on a vector of size s and capacity c leaves
\* size s + 1, the elements [0, s) as they were and in order, and x as
\* element s (x a value living outside the vector); the capacity becomes
\* max(1, 2c) when s = c and stays c when s < c.
C2_PushBack ==
  [][Step(PushOps, {"ok"}, {"grow", "inplace"}) =>
       LET t == last'.t
           c == This(t)
       IN /\ size_'[t] = c.size_ + 1
          /\ capacity_'[t] = IF c.size_ = c.capacity_ THEN Doubled(c.capacity_) ELSE c.capacity_
          /\ \A i \in 1..c.size_ : heap'[vector_'[t]].slots[i] = Elem(heap, c, i)
          /\ heap'[vector_'[t]].slots[c.size_ + 1] # Raw
          /\ CleanStep
          /\ \A x \in Values :
               LET out == PushBackBody(heap, c, ArgExt(x), NoFault)
               IN /\ out.result = "ok"
                  /\ out.c.size_ = c.size_ + 1
                  /\ Elem(out.m.heap, out.c, c.size_ + 1) = x
                  /\ \A i \in 1..c.size_ : Elem(out.m.heap, out.c, i) = Elem(heap, c, i)
  ]_vars

\* A PushBack has just grown a full vector of at least two elements.
C2_Witness ==
  /\ Did(PushOps, {"ok"}) /\ last.path = "grow"
  /\ size_[last.t] >= 3 /\ capacity_[last.t] = 4

\* C3: when PushBack on a full vector fails constructing the new trailing
\* element in the new block, the new block is unwound and released and the
\* vector is as before the call: same block, size, capacity, and every
\* element with the value it had.
C3_PushBackGrowRollback ==
  [][Step(PushOps, {"ctor_threw"}, {"grow"}) => SameMemory /\ CleanStep]_vars

\* C4: no operation runs an element destructor on a slot that holds no
\* constructed element.
C4_NoRawDestroy == destroyedRaw = 0

\* Every vector has been destroyed and the process is still running.
AllDestroyed == ~crashed /\ \A t \in objs : ~exists[t]

\* C5: once every vector has been destroyed, every block obtained from the
\* allocator has been released, no object's storage was released while it
\* lived, and the constructions and the destructor runs balance.
C5_Balanced ==
  AllDestroyed => /\ \A p \in Addrs : ~heap[p].live
                  /\ lostElems = 0
                  /\ destroyedRaw = 0

\* C6: when Reserve or ShrinkToFit fails moving an element into the new
\* block, what was built there is destroyed, once each, the new block is
\* released and the vector is as before the call, values included.
C6_ReallocateRollback ==
  [][Step(ReallocOps, {"move_threw"}, {"realloc"}) => SameMemory /\ CleanStep]_vars

\* C7: when PushBack with size < capacity fails constructing the element in
\* slot size, the size, the capacity, the block and the elements [0, size)
\* are as before, and the failed construction attempt is the only construct
\* or destroy the call performs on any slot.
C7_PushBackInPlaceFrame ==
  [][Step(PushOps, {"ctor_threw"}, {"inplace"}) =>
       LET t == last'.t
           c == This(t)
       IN /\ SameMemory
          /\ CleanStep
          /\ \A value \in Args(c) :
               LET out == PushBackBody(heap, c, value, [alloc |-> FALSE, ctor |-> 1])
               IN /\ out.result = "ctor_threw"
                  /\ out.c = c
                  /\ out.m.heap = heap
                  /\ out.m.constructs = 0
                  /\ out.m.destroys = 0
  ]_vars

\* C8: when Resize within the capacity fails constructing the k-th new slot,
\* only the new slots this call constructed are destroyed, once each; the
\* prefix [0, size), the size and the capacity are as before.
C8_ResizeInPlaceRollback ==
  [][Step(ResizeOps, {"ctor_threw"}, {"inplace"}) => SameMemory /\ CleanStep]_vars

\* C9: when Resize beyond the capacity fails constructing a new slot in the
\* fresh block, the vector keeps its block, size and capacity, every element
\* of [0, size) keeps its value, and what was constructed in the fresh block
\* is destroyed, once each, before that block is released.
C9_ResizeGrowRollback ==
  [][Step(ResizeOps, {"ctor_threw"}, {"grow"}) => SameMemory /\ CleanStep]_vars

\* C10: when the K-th element construction of the sized, sized-with-value,
\* range/list or copy constructor throws, the K - 1 elements built are
\* destroyed once each, the block is released once, no vector comes into
\* existence and (copy construction) the source is untouched.
C10_CtorRollback ==
  [][Step(CtorOps, {"ctor_threw"}, {"ctor"}) =>
       /\ SameMemory
       /\ CleanStep
       /\ last'.badFree = "none"
       /\ ~exists'[last'.t]
       /\ \A f \in Faults, n \in 1..CapBound :
            /\ LET out == VectorSized(heap, n, f, FALSE)
               IN out.result = "ctor_threw" =>
                    /\ out.m.constructs = f.ctor - 1 /\ out.m.destroys = f.ctor - 1
                    /\ out.m.allocs = 1 /\ out.m.deallocs = 1 /\ out.m.raw = 0
            /\ \A vals \in [1..n -> Values] :
                 LET out == VectorFrom(heap, vals, f, FALSE)
                 IN out.result = "ctor_threw" =>
                      /\ out.m.constructs = f.ctor - 1 /\ out.m.destroys = f.ctor - 1
                      /\ out.m.allocs = 1 /\ out.m.deallocs = 1 /\ out.m.raw = 0
            /\ \A o \in objs :
                 exists[o] =>
                   LET out == VectorCopy(heap, This(o), f, FALSE)
                   IN out.result = "ctor_threw" =>
                        /\ out.m.constructs = f.ctor - 1 /\ out.m.destroys = f.ctor - 1
                        /\ out.m.allocs = 1 /\ out.m.deallocs = 1 /\ out.m.raw = 0
  ]_vars

\* The copy constructor has just thrown while a source with elements exists.
C10_Witness ==
  /\ Did({"VectorCopy"}, {"ctor_threw"})
  /\ \E o \in objs : exists[o] /\ size_[o] >= 2

\* C11: when an allocation fails, the failure propagates with no partial
\* state: every vector keeps its block, size, capacity and elements, and the
\* operation passes deallocate no pointer other than a block it obtained
\* from allocate and still holds.
C11_AllocFailureClean ==
  [][last'.result = "bad_alloc" =>
       SameMemory /\ CleanStep /\ last'.badFree = "none"]_vars

\* C12: the storage pointer of every existing vector is null if and only if
\* its capacity is 0.
C12_NullIffNoCapacity ==
  \A t \in objs : exists[t] => (vector_[t] = NULL <=> capacity_[t] = 0)

\* C16: Reserve(k) with k <= capacity changes nothing and allocates nothing;
\* a successful Reserve(n) with n > capacity makes the capacity exactly n and
\* keeps the size and the elements, in order.
C16_Reserve ==
  [][Step({"Reserve"}, {"ok"}, {"noop", "realloc"}) =>
       LET t == last'.t
           c == This(t)
       IN /\ size_'[t] = c.size_
          /\ \A i \in 1..c.size_ : heap'[vector_'[t]].slots[i] = Elem(heap, c, i)
          /\ CleanStep
          /\ last'.path = "noop" => SameMemory
          /\ last'.path = "realloc" => capacity_'[t] > c.capacity_
          /\ \A n \in 0..CapBound :
               LET out == Reserve(heap, c, n, NoFault)
               IN IF n <= c.capacity_
                    THEN /\ out.result = "ok" /\ out.c = c /\ out.m.heap = heap
                         /\ out.m.allocs = 0 /\ out.m.constructs = 0 /\ out.m.destroys = 0
                    ELSE /\ out.result = "ok"
                         /\ out.c.capacity_ = n
                         /\ out.c.size_ = c.size_
                         /\ Elems(out.m.heap, out.c) = Elems(heap, c)
  ]_vars

\* Reserve has just moved at least two elements into a larger block.
C16_Witness ==
  /\ Did({"Reserve"}, {"ok"}) /\ last.path = "realloc"
  /\ size_[last.t] >= 2 /\ capacity_[last.t] > size_[last.t]

\* C17: after a successful ShrinkToFit the capacity equals the size, the
\* size is as before and the elements are as before, in order; with size =
\* capacity before the call nothing is allocated or moved.
C17_ShrinkToFit ==
  [][Step({"ShrinkToFit"}, {"ok"}, {"noop", "realloc"}) =>
       LET t == last'.t
           c == This(t)
           out == ShrinkToFit(heap, c, NoFault)
       IN /\ capacity_'[t] = size_'[t]
          /\ size_'[t] = c.size_
          /\ \A i \in 1..c.size_ : heap'[vector_'[t]].slots[i] = Elem(heap, c, i)
          /\ CleanStep
          /\ c.size_ = c.capacity_ =>
               /\ SameMemory
               /\ out.m.allocs = 0 /\ out.m.constructs = 0 /\ out.m.destroys = 0
  ]_vars

\* ShrinkToFit has just moved at least two elements into a smaller block.
C17_Witness ==
  /\ Did({"ShrinkToFit"}, {"ok"}) /\ last.path = "realloc"
  /\ size_[last.t] >= 2

\* What a successful resize of the vector c of heap h to n, new slots filled
\* with x, comes to: out is the outcome Resize computed.
Resized(out, h, c, n, x) ==
  LET s == c.size_
      kept == IF n < s THEN n ELSE s
  IN /\ out.result = "ok"
     /\ out.c.size_ = n
     /\ \A i \in 1..kept : Elem(out.m.heap, out.c, i) = Elem(h, c, i)
     /\ \A i \in (s + 1)..n : Elem(out.m.heap, out.c, i) = x
     /\ out.m.raw = 0 /\ out.m.lost = 0
     /\ n > c.capacity_ => out.c.capacity_ = n
     /\ n <= c.capacity_ => /\ out.c.capacity_ = c.capacity_
                            /\ out.c.vector_ = c.vector_
                            /\ out.m.allocs = 0
     /\ (s < n /\ n <= c.capacity_) => out.m.constructs = n - s /\ out.m.destroys = 0
     /\ n < s => /\ out.m.destroys = s - n /\ out.m.constructs = 0
                 /\ \A i \in (n + 1)..s : out.m.heap[c.vector_].slots[i] = Raw
     /\ n = s => out.c = c /\ out.m.heap = h /\ out.m.touched = {}

C20_PushBackAliased ==
  [][Step({"PushBack"}, {"ok"}, {"grow", "inplace"}) =>
       LET t == last'.t
           c == This(t)
       IN \A i \in 1..c.size_ :
            \A out \in {PushBackBody(heap, c, ArgSelf(i), NoFault)} :
              /\ out.result = "ok"
              /\ out.c.size_ = c.size_ + 1
              /\ Elem(out.m.heap, out.c, i) = Elem(heap, c, i)
              /\ Elem(out.m.heap, out.c, c.size_ + 1) = Elem(heap, c, i)
  ]_vars

\* floor(log2(n)) for n >= 1
RECURSIVE Log2Floor(_)
Log2Floor(n) == IF n <= 1 THEN 0 ELSE 1 + Log2Floor(n \div 2)

\* ceil(log2(n)) for n >= 1
Log2Ceil(n) == IF n <= 1 THEN 0 ELSE 1 + Log2Floor(n - 1)

\* N PushBacks on the default-constructed vector made fewer than 3N element
\* constructions, fewer than 2N of them moves, and left size N.
LinearWork ==
  LET N == work.pushes
  IN \A t \in objs : (exists[t] /\ N >= 1) =>
       /\ size_[t] = N
       /\ work.constructs = N + work.moves
       /\ work.constructs < 3 * N
       /\ work.moves < 2 * N

\* C19: N successful PushBacks on a default-constructed vector make fewer
\* than 3N element constructions in total, fewer than 2N moves during
\* growth, and at most floor(log2(N)) + 1 allocations.
C19_AmortizedFloor ==
  LinearWork /\ (work.pushes >= 1 => work.allocs <= Log2Floor(work.pushes) + 1)

\* C19 amended: the same bounds on the constructions, and at most
\* ceil(log2(N)) + 1 allocations.
C19_AmortizedCeil ==
  LinearWork /\ (work.pushes >= 1 => work.allocs <= Log2Ceil(work.pushes) + 1)

\* Five PushBacks have been made, the last one growing the vector from
\* capacity 4 to capacity 8.
C19_Witness ==
  /\ work.pushes = 5 /\ work.allocs = 4 /\ work.moves = 7
  /\ Did({"PushBack"}, {"ok"}) /\ last.path = "grow"

\* In a program of two vectors, the one that is not t.
Other(t) == CHOOSE o \in objs : o # t

\* The step leaves vector o as it was: lifetime, fields and block.
Untouched(o) ==
  /\ exists'[o] = exists[o]
  /\ vector_'[o] = vector_[o] /\ size_'[o] = size_[o] /\ capacity_'[o] = capacity_[o]
  /\ vector_[o] # NULL => heap'[vector_[o]] = heap[vector_[o]]

\* After the step vector t holds, in a block of its own, the elements vector
\* o held before it, in order, at o's size and capacity.
CopyOf(t, o) ==
  /\ exists'[t]
  /\ size_'[t] = size_[o] /\ capacity_'[t] = capacity_[o]
  /\ vector_'[t] \in Addrs /\ vector_'[t] # vector_[o]
  /\ heap'[vector_'[t]].live /\ heap'[vector_'[t]].cap = capacity_[o]
  /\ \A i \in 1..size_[o] : heap'[vector_'[t]].slots[i] = Elem(heap, This(o), i)

MutatorOps == {"PushBack", "PushBackMove", "PopBack", "Resize", "ResizeValue", "Clear"}

\* C13: copy construction w(v) gives w the capacity of v (not its size), the
\* size of v and the elements of v in order, in a block distinct from v's,
\* and leaves v as it was; PushBack, PopBack, Resize and Clear on one vector
\* change neither the size nor the elements of the other.
C13_CopyIndependent ==
  [][/\ Step({"VectorCopy"}, {"ok"}, {"ctor"}) =>
          /\ CopyOf(last'.t, Other(last'.t))
          /\ Untouched(Other(last'.t))
          /\ CleanStep
     /\ last'.op \in MutatorOps => \A o \in objs \ {last'.t} : Untouched(o)
  ]_vars

\* A vector of two different elements has just been copy-constructed.
C13_Witness ==
  /\ Did({"VectorCopy"}, {"ok"})
  /\ size_[last.t] = 2 /\ size_[Other(last.t)] = 2
  /\ Elem(heap, This(last.t), 1) # Elem(heap, This(last.t), 2)

\* C14: copy assignment w = v either completes or fails leaving w and v as
\* they were (when the allocation or an element copy of the temporary
\* fails); on success w's previous elements are destroyed and its previous
\* block released, once; w = w changes nothing.
C14_CopyAssignStrong ==
  [][last'.op = "CopyAssign" =>
       LET t == last'.t
       IN /\ last'.result \in Failures \cup {"ok"}
          /\ last'.result \in Failures => SameMemory /\ CleanStep
          /\ Step({"CopyAssign"}, {"ok"}, {"noop"}) => SameMemory /\ CleanStep
          /\ Step({"CopyAssign"}, {"ok"}, {"copy"}) =>
               /\ CopyOf(t, Other(t))
               /\ Untouched(Other(t))
               /\ vector_[t] # NULL => ~heap'[vector_[t]].live
               /\ CleanStep
  ]_vars

\* C15: move construction and move assignment w = move(v) give w the block,
\* size and capacity of v with no element constructed, moved or destroyed
\* in it, and leave v with null storage, size 0 and capacity 0; move
\* assignment first destroys w's elements and releases w's block, once; a
\* PushBack on the moved-from v succeeds with capacity 1; w = move(w)
\* changes nothing.
C15_Move ==
  [][last'.op \in {"VectorMove", "MoveAssign"} =>
       LET t == last'.t
           o == Other(t)
       IN /\ last'.result = "ok"
          /\ CleanStep
          /\ last'.path = "noop" => SameMemory
          /\ last'.path = "move" =>
               /\ exists'[t] /\ exists'[o]
               /\ vector_'[t] = vector_[o] /\ size_'[t] = size_[o]
               /\ capacity_'[t] = capacity_[o]
               /\ vector_'[o] = NULL /\ size_'[o] = 0 /\ capacity_'[o] = 0
               /\ vector_[o] # NULL => heap'[vector_[o]] = heap[vector_[o]]
               /\ \A x \in Values :
                    \A out \in {PushBackBody(heap', [vector_ |-> vector_'[o], size_ |-> size_'[o],
                                                     capacity_ |-> capacity_'[o]],
                                             ArgExt(x), NoFault)} :
                      out.result = "ok" /\ out.c.capacity_ = 1 /\ out.c.size_ = 1
          /\ Step({"VectorMove"}, {"ok"}, {"move"}) => heap' = heap
          /\ Step({"MoveAssign"}, {"ok"}, {"move"}) =>
               /\ \A p \in Addrs \ {vector_[t]} : heap'[p] = heap[p]
               /\ vector_[t] # NULL => ~heap'[vector_[t]].live
               /\ \A out \in {MoveAssign(heap, This(t), This(o))} :
                    /\ out.m.destroys = size_[t] /\ out.m.raw = 0
                    /\ out.m.deallocs = (IF vector_[t] # NULL THEN 1 ELSE 0)
                    /\ out.m.badFree = "none" /\ out.m.constructs = 0
  ]_vars

\* A vector of two different elements has just been move-assigned.
C15_Witness ==
  /\ Did({"MoveAssign"}, {"ok"}) /\ last.path = "move"
  /\ size_[last.t] = 2
  /\ Elem(heap, This(last.t), 1) # Elem(heap, This(last.t), 2)

====
